---- MODULE Spec2Model ----
(***************************************************************************)
(* Model of the bank-shot solver BankShotCalculator (physics engine of     *)
(* BankShotAI) and of the requests callers make to findAllShots.           *)
(*                                                                         *)
(* Numbers.  The source computes in IEEE doubles, in millimetres.  The     *)
(* model computes in fixed point: a length or coordinate is an integer     *)
(* number of units, Scale units to the millimetre (1/40 mm, the coarsest   *)
(* unit in which BALL_RADIUS = 28.575 mm, the table and the pockets are    *)
(* all whole numbers); a direction component is an integer number of       *)
(* 1/DirScale; a score is an integer number of 1/ScoreScale.  Every        *)
(* product/quotient is rounded to the nearest unit and every square root   *)
(* is rounded down, so a model value is within a few units of the value    *)
(* the source's expression denotes.  The source's tolerances 1e-6 and 1e-9 *)
(* are below one unit: a model length is below them exactly when it is 0.  *)
(* A comparison whose two sides differ by less than the rounding (a ball   *)
(* exactly on the table's diagonal, whose double bank turns in a corner)   *)
(* is decided by the model's rounding, as the source's is by the doubles'. *)
(***************************************************************************)
EXTENDS Integers, Sequences, FiniteSets, TLC

VARIABLES
    width,          \* this.width
    length,         \* this.length
    pockets,        \* this.pockets: pocket name -> position
    diag,           \* this.diag
    cuePos,         \* argument of the last findAllShots call
    objectPos,      \* argument of the last findAllShots call
    targetPocket,   \* argument of the last findAllShots call (selector)
    maxBanks,       \* argument of the last findAllShots call
    shots,          \* the list the last call returned
    outcome,        \* "idle" | "returned" | "TypeError"
    earlier,        \* calls completed before the last one: <<request, shots>>
    state,          \* App.state
    balls,          \* App.balls: the positions <<x, y>> of the balls found
    selectedCue,    \* App.selectedCue: index into balls (from 0) or NoSelection
    selectedTarget, \* App.selectedTarget: index into balls (from 0) or NoSelection
    selectedPocket, \* App.selectedPocket: pocket name or JSNull
    scanTimer,      \* App._scanTimer is set (the interval timer is running)
    demoMode        \* App._demoMode

(* the fields of the App; App.shots is the variable shots, the list the
   calculator returned to it *)
appVars == <<state, balls, selectedCue, selectedTarget, selectedPocket,
             scanTimer, demoMode>>

vars == <<width, length, pockets, diag, cuePos, objectPos, targetPocket,
          maxBanks, shots, outcome, earlier, appVars>>

-----------------------------------------------------------------------------
(* Number representation *)

Scale == 8 * 5                 \* units per millimetre
DirScale == 1024 * 1024        \* units per 1.0 of a direction component
ScoreScale == 1000 * 1000      \* units per 1.0 of a difficulty score
Far == 1024 * 1024 * 64        \* a coordinate at least this far is off every rail

NULL == <<>>                   \* JavaScript null / a falsy return value

(* const name = value; rest: the value is computed once and named in rest *)
Const(value, Rest(_)) == Rest(value)

Abs(a) == IF a < 0 THEN -a ELSE a

Sgn(a) == IF a < 0 THEN -1 ELSE IF a > 0 THEN 1 ELSE 0

Min(a, b) == IF a <= b THEN a ELSE b

(* <<q, r>> with a * b = q * c + r and 0 <= r < c, for a, b >= 0 and c > 0,
   by binary long multiplication so that no intermediate exceeds 2c + a. *)
RECURSIVE MulDivMod(_, _, _)
MulDivMod(a, b, c) ==
    IF b = 0 THEN <<0, 0>>
    ELSE LET h == MulDivMod(a, b \div 2, c)
             t == 2 * h[2] + (IF b % 2 = 1 THEN a ELSE 0)
         IN  <<2 * h[1] + (t \div c), t % c>>

(* a * b / c rounded to the nearest integer (halves away from zero); a
   quotient too large to be a coordinate near the table saturates at Far. *)
MulDiv(a, b, c) ==
    LET s  == Sgn(a) * Sgn(b) * Sgn(c)
        aa == Abs(a)
        bb == Abs(b)
        cc == Abs(c)
    IN  IF aa = 0 \/ bb = 0 THEN 0
        ELSE IF (aa \div cc) >= Far \div bb THEN s * Far
        ELSE LET qr == MulDivMod(aa, bb, cc)
             IN  s * (IF 2 * qr[2] >= cc THEN qr[1] + 1 ELSE qr[1])

(* floor(sqrt(n)) for 0 <= n < 2^30, by bisection on [lo, hi) *)
RECURSIVE SqrtBetween(_, _, _)
SqrtBetween(n, lo, hi) ==
    IF hi - lo <= 1 THEN lo
    ELSE LET mid == (lo + hi) \div 2
         IN  IF mid * mid <= n THEN SqrtBetween(n, mid, hi)
                               ELSE SqrtBetween(n, lo, mid)

ISqrt(n) == SqrtBetween(n, 0, 32768)

(* the largest d in [lo, hi) with (s0 + d)^2 <= s0^2 + rest *)
RECURSIVE RootStep(_, _, _, _)
RootStep(s0, rest, lo, hi) ==
    IF hi - lo <= 1 THEN lo
    ELSE LET mid == (lo + hi) \div 2
         IN  IF 2 * s0 * mid + mid * mid <= rest THEN RootStep(s0, rest, mid, hi)
                                                 ELSE RootStep(s0, rest, lo, mid)

(* hypot(dx, dy) = sqrt(dx*dx + dy*dy), rounded down.  dx*dx + dy*dy is held
   as hi * 2^16 + lo (each part below 2^31); the root of hi gives the result
   to within 2^8, the remainder gives the rest.  |dx|, |dy| < 2^21. *)
hypot(dx, dy) ==
    LET ax == Abs(dx)
        ay == Abs(dy)
        xh == ax \div 256
        xl == ax % 256
        yh == ay \div 256
        yl == ay % 256
        \* ax^2 = xh^2 * 2^16 + (2 xh xl) * 2^8 + xl^2
        mx == 2 * xh * xl
        my == 2 * yh * yl
        low == (mx % 256) * 256 + xl * xl + (my % 256) * 256 + yl * yl
        hi == xh * xh + yh * yh + (mx \div 256) + (my \div 256) + (low \div 65536)
        lo == low % 65536
        rh == ISqrt(hi)
        s0 == rh * 256
        rest == (hi - rh * rh) * 65536 + lo      \* n - s0^2, at most 2 s0 2^8 + 2^16
        d == RootStep(s0, rest, 0, 256)
    IN  s0 + d

-----------------------------------------------------------------------------
(* table-config.js *)

TABLE_WIDTH == 1118 * Scale
TABLE_LENGTH == 2235 * Scale
BALL_DIAMETER == (5715 * Scale) \div 100
BALL_RADIUS == BALL_DIAMETER \div 2

PocketNames ==
    <<"bottom_left", "bottom_right", "side_left", "side_right", "top_left",
      "top_right">>

POCKETS ==
    [n \in {PocketNames[i] : i \in 1..6} |->
        CASE n = "bottom_left"  -> <<0, 0>>
          [] n = "bottom_right" -> <<TABLE_WIDTH, 0>>
          [] n = "side_left"    -> <<0, TABLE_LENGTH \div 2>>
          [] n = "side_right"   -> <<TABLE_WIDTH, TABLE_LENGTH \div 2>>
          [] n = "top_left"     -> <<0, TABLE_LENGTH>>
          [] n = "top_right"    -> <<TABLE_WIDTH, TABLE_LENGTH>>]

RAIL_LEFT == 0
RAIL_RIGHT == TABLE_WIDTH
RAIL_BOTTOM == 0
RAIL_TOP == TABLE_LENGTH

-----------------------------------------------------------------------------
(* physics engine: constants *)

ALL_RAILS == <<"left", "right", "bottom", "top">>

EPS_DIST == 1       \* 1e-6 mm: a length in units is below it iff it is 0
EPS_PARALLEL == 1   \* 1e-9 mm: a difference in units is below it iff it is 0
EPS_NORM == 1       \* 1e-9: a direction length in 1/DirScale is below it iff 0
RAIL_MARGIN == 50 * Scale

-----------------------------------------------------------------------------
(* physics engine: helpers of BankShotCalculator *)

(* variant: the point is moved to the other side of the rail's line by the
   table's width or length, not mirrored in the line *)
reflectPoint_Translated(point, rail) ==
    LET x == point[1]
        y == point[2]
    IN  CASE rail = "left"   -> <<x - width, y>>
          [] rail = "right"  -> <<x + width, y>>
          [] rail = "bottom" -> <<x, y - length>>
          [] rail = "top"    -> <<x, y + length>>
          [] OTHER           -> NULL

reflectPoint(point, rail) ==
    LET x == point[1]
        y == point[2]
    IN  CASE rail = "left"   -> <<-x, y>>
          [] rail = "right"  -> <<2 * width - x, y>>
          [] rail = "bottom" -> <<x, -y>>
          [] rail = "top"    -> <<x, 2 * length - y>>
          [] OTHER           -> NULL

(* t = num / den is kept as the pair: t < 0 iff num and den have opposite
   signs (t = -0 is not below 0), and t * d is num * d / den. *)
(* variant: a crossing behind the start of the line is accepted *)
lineRailIntersection_BehindAllowed(p1, p2, rail) ==
    LET x1 == p1[1]
        y1 == p1[2]
        dx == p2[1] - x1
        dy == p2[2] - y1
        vertical == rail \in {"left", "right"}
        den == IF vertical THEN dx ELSE dy
        num == CASE rail = "left"   -> RAIL_LEFT - x1
                 [] rail = "right"  -> RAIL_RIGHT - x1
                 [] rail = "bottom" -> RAIL_BOTTOM - y1
                 [] rail = "top"    -> RAIL_TOP - y1
    IN  IF rail \notin {"left", "right", "bottom", "top"} THEN NULL
        ELSE IF Abs(den) < EPS_PARALLEL THEN NULL
        ELSE <<x1 + MulDiv(num, dx, den), y1 + MulDiv(num, dy, den)>>

lineRailIntersection(p1, p2, rail) ==
    LET x1 == p1[1]
        y1 == p1[2]
        dx == p2[1] - x1
        dy == p2[2] - y1
        vertical == rail \in {"left", "right"}
        den == IF vertical THEN dx ELSE dy
        num == CASE rail = "left"   -> RAIL_LEFT - x1
                 [] rail = "right"  -> RAIL_RIGHT - x1
                 [] rail = "bottom" -> RAIL_BOTTOM - y1
                 [] rail = "top"    -> RAIL_TOP - y1
    IN  IF rail \notin {"left", "right", "bottom", "top"} THEN NULL
        ELSE IF Abs(den) < EPS_PARALLEL THEN NULL
        ELSE IF Sgn(num) * Sgn(den) < 0 THEN NULL
        ELSE <<x1 + MulDiv(num, dx, den), y1 + MulDiv(num, dy, den)>>

(* variant: the aim point is not checked *)
onTable_Unchecked(point) == TRUE

onTable(point) ==
    LET x == point[1]
        y == point[2]
        m == BALL_RADIUS
    IN  /\ x >= RAIL_LEFT - m
        /\ x <= RAIL_RIGHT + m
        /\ y >= RAIL_BOTTOM - m
        /\ y <= RAIL_TOP + m

(* variant: the cushion point may be anywhere on the rail's line *)
onRail_WholeLine(point, rail) == TRUE

onRail(point, rail) ==
    LET x == point[1]
        y == point[2]
        margin == RAIL_MARGIN
    IN  IF rail = "left" \/ rail = "right"
        THEN y >= -margin /\ y <= length + margin
        ELSE x >= -margin /\ x <= width + margin

(* variant: the distance factor is not halved *)
rateDifficulty_Unhalved(cueDist, obDist, numBanks) ==
    LET distFactor == MulDiv(cueDist + obDist, ScoreScale, 2 * diag)
        bankPenalty == numBanks * (ScoreScale \div 4)
    IN  Min(ScoreScale, distFactor + bankPenalty)

(* variant: Math.min(1.0, ...) is missing *)
rateDifficulty_NoCap(cueDist, obDist, numBanks) ==
    LET distFactor == MulDiv(cueDist + obDist, ScoreScale, 2 * diag)
        bankPenalty == numBanks * (ScoreScale \div 4)
    IN  MulDiv(distFactor, ScoreScale \div 2, ScoreScale) + bankPenalty

(* variant: cushions add nothing to the score *)
rateDifficulty_NoPenalty(cueDist, obDist, numBanks) ==
    LET distFactor == MulDiv(cueDist + obDist, ScoreScale, 2 * diag)
        bankPenalty == 0
    IN  Min(ScoreScale, MulDiv(distFactor, ScoreScale \div 2, ScoreScale) + bankPenalty)

rateDifficulty(cueDist, obDist, numBanks) ==
    LET distFactor == MulDiv(cueDist + obDist, ScoreScale, 2 * diag)
        bankPenalty == numBanks * (ScoreScale \div 4)
    IN  Min(ScoreScale, MulDiv(distFactor, ScoreScale \div 2, ScoreScale) + bankPenalty)

(* variant: the three thresholds are 0.1, 0.5 and 0.75 *)
scoreToDifficulty_LowEasy(score) ==
    IF score < ScoreScale \div 10 THEN "easy"
    ELSE IF score < ScoreScale \div 2 THEN "medium"
    ELSE IF score < 3 * (ScoreScale \div 4) THEN "hard"
    ELSE "very_hard"

scoreToDifficulty(score) ==
    IF score < ScoreScale \div 4 THEN "easy"
    ELSE IF score < ScoreScale \div 2 THEN "medium"
    ELSE IF score < 3 * (ScoreScale \div 4) THEN "hard"
    ELSE "very_hard"

(* variant: the ghost ball is placed on the far side of the object ball,
   towards the target *)
ghostBallPoint_TowardsTarget(objPos, direction) ==
    LET dx == direction[1]
        dy == direction[2]
    IN  Const(hypot(dx, dy), LAMBDA norm :
        IF norm < EPS_NORM THEN objPos
        ELSE LET ux == MulDiv(dx, DirScale, norm)
                 uy == MulDiv(dy, DirScale, norm)
             IN  <<objPos[1] + MulDiv(ux, BALL_RADIUS * 2, DirScale),
                   objPos[2] + MulDiv(uy, BALL_RADIUS * 2, DirScale)>>)

(* variant: the offset is one ball radius instead of the diameter *)
ghostBallPoint_OneRadius(objPos, direction) ==
    LET dx == direction[1]
        dy == direction[2]
    IN  Const(hypot(dx, dy), LAMBDA norm :
        IF norm < EPS_NORM THEN objPos
        ELSE LET ux == MulDiv(dx, DirScale, norm)
                 uy == MulDiv(dy, DirScale, norm)
             IN  <<objPos[1] - MulDiv(ux, BALL_RADIUS, DirScale),
                   objPos[2] - MulDiv(uy, BALL_RADIUS, DirScale)>>)

ghostBallPoint(objPos, direction) ==
    LET dx == direction[1]
        dy == direction[2]
    IN  Const(hypot(dx, dy), LAMBDA norm :
        IF norm < EPS_NORM THEN objPos
        ELSE LET ux == MulDiv(dx, DirScale, norm)
                 uy == MulDiv(dy, DirScale, norm)
             IN  <<objPos[1] - MulDiv(ux, BALL_RADIUS * 2, DirScale),
                   objPos[2] - MulDiv(uy, BALL_RADIUS * 2, DirScale)>>)

-----------------------------------------------------------------------------
(* physics engine: the three shot classes *)

(* variant: no dist < 1e-6 guard, the raw difference handed to
   _ghostBallPoint (which normalises it, and answers a zero vector with the
   object position itself) *)
calcDirect_NoDegenerateCheck(cue, obj, pocketPos) ==
    LET dx == pocketPos[1] - obj[1]
        dy == pocketPos[2] - obj[2]
    IN  Const(hypot(dx, dy), LAMBDA dist :
        Const(ghostBallPoint(obj, <<dx, dy>>), LAMBDA aim :
        IF ~onTable(aim) THEN NULL
        ELSE
        Const(hypot(aim[1] - cue[1], aim[2] - cue[2]), LAMBDA cueDist :
        Const(rateDifficulty(cueDist, dist, 0), LAMBDA score :
            [cuePos |-> cue, objectPos |-> obj, targetPocket |-> pocketPos,
             aimPoint |-> aim, bankPoints |-> <<>>, railsUsed |-> <<>>,
             totalDistance |-> cueDist + dist,
             difficulty |-> scoreToDifficulty(score),
             difficultyScore |-> score,
             pathSegments |-> <<<<cue, aim>>, <<obj, pocketPos>>>>]))))

(* variant: the way from the aim point to the object ball is counted in totalDistance *)
calcDirect_GapCounted(cue, obj, pocketPos) ==
    LET dx == pocketPos[1] - obj[1]
        dy == pocketPos[2] - obj[2]
    IN  Const(hypot(dx, dy), LAMBDA dist :
        IF dist < EPS_DIST THEN NULL
        ELSE
        Const(<<MulDiv(dx, DirScale, dist), MulDiv(dy, DirScale, dist)>>,
              LAMBDA direction :
        Const(ghostBallPoint(obj, direction), LAMBDA aim :
        IF ~onTable(aim) THEN NULL
        ELSE
        Const(hypot(aim[1] - cue[1], aim[2] - cue[2]), LAMBDA cueDist :
        Const(cueDist + BALL_RADIUS * 2 + dist, LAMBDA totalDist :
        Const(rateDifficulty(cueDist, dist, 0), LAMBDA score :
            [cuePos |-> cue, objectPos |-> obj, targetPocket |-> pocketPos,
             aimPoint |-> aim, bankPoints |-> <<>>, railsUsed |-> <<>>,
             totalDistance |-> totalDist,
             difficulty |-> scoreToDifficulty(score),
             difficultyScore |-> score,
             pathSegments |-> <<<<cue, aim>>, <<obj, pocketPos>>>>]))))))

(* variant: a direct shot is given up when the cue ball is further from the aim point than the table is long *)
calcDirect_CueInReach(cue, obj, pocketPos) ==
    LET dx == pocketPos[1] - obj[1]
        dy == pocketPos[2] - obj[2]
    IN  Const(hypot(dx, dy), LAMBDA dist :
        IF dist < EPS_DIST THEN NULL
        ELSE
        Const(<<MulDiv(dx, DirScale, dist), MulDiv(dy, DirScale, dist)>>,
              LAMBDA direction :
        Const(ghostBallPoint(obj, direction), LAMBDA aim :
        IF ~onTable(aim) THEN NULL
        ELSE
        Const(hypot(aim[1] - cue[1], aim[2] - cue[2]), LAMBDA cueDist :
        IF cueDist > length THEN NULL
        ELSE
        Const(cueDist + dist, LAMBDA totalDist :
        Const(rateDifficulty(cueDist, dist, 0), LAMBDA score :
            [cuePos |-> cue, objectPos |-> obj, targetPocket |-> pocketPos,
             aimPoint |-> aim, bankPoints |-> <<>>, railsUsed |-> <<>>,
             totalDistance |-> totalDist,
             difficulty |-> scoreToDifficulty(score),
             difficultyScore |-> score,
             pathSegments |-> <<<<cue, aim>>, <<obj, pocketPos>>>>]))))))

calcDirect(cue, obj, pocketPos) ==
    LET dx == pocketPos[1] - obj[1]
        dy == pocketPos[2] - obj[2]
    IN  Const(hypot(dx, dy), LAMBDA dist :
        IF dist < EPS_DIST THEN NULL
        ELSE
        Const(<<MulDiv(dx, DirScale, dist), MulDiv(dy, DirScale, dist)>>,
              LAMBDA direction :
        Const(ghostBallPoint(obj, direction), LAMBDA aim :
        IF ~onTable(aim) THEN NULL
        ELSE
        Const(hypot(aim[1] - cue[1], aim[2] - cue[2]), LAMBDA cueDist :
        Const(cueDist + dist, LAMBDA totalDist :
        Const(rateDifficulty(cueDist, dist, 0), LAMBDA score :
            [cuePos |-> cue, objectPos |-> obj, targetPocket |-> pocketPos,
             aimPoint |-> aim, bankPoints |-> <<>>, railsUsed |-> <<>>,
             totalDistance |-> totalDist,
             difficulty |-> scoreToDifficulty(score),
             difficultyScore |-> score,
             pathSegments |-> <<<<cue, aim>>, <<obj, pocketPos>>>>]))))))

(* variant: the segment from the cushion point to the pocket is missing *)
calcSingleBank_LastLegMissing(cue, obj, pocketPos, rail) ==
    Const(reflectPoint(pocketPos, rail), LAMBDA mirror :
    IF mirror = NULL THEN NULL
    ELSE
    Const(lineRailIntersection(obj, mirror, rail), LAMBDA bankPoint :
    IF bankPoint = NULL THEN NULL
    ELSE IF ~onRail(bankPoint, rail) THEN NULL
    ELSE
    Const(bankPoint[1] - obj[1], LAMBDA dx :
    Const(bankPoint[2] - obj[2], LAMBDA dy :
    Const(hypot(dx, dy), LAMBDA dist1 :
    IF dist1 < EPS_DIST THEN NULL
    ELSE
    Const(<<MulDiv(dx, DirScale, dist1), MulDiv(dy, DirScale, dist1)>>,
          LAMBDA direction :
    Const(ghostBallPoint(obj, direction), LAMBDA aim :
    IF ~onTable(aim) THEN NULL
    ELSE
    Const(hypot(pocketPos[1] - bankPoint[1], pocketPos[2] - bankPoint[2]),
          LAMBDA dist2 :
    Const(hypot(aim[1] - cue[1], aim[2] - cue[2]), LAMBDA cueDist :
    Const(cueDist + dist1 + dist2, LAMBDA totalDist :
    Const(rateDifficulty(cueDist, dist1 + dist2, 1), LAMBDA score :
        [cuePos |-> cue, objectPos |-> obj, targetPocket |-> pocketPos,
         aimPoint |-> aim, bankPoints |-> <<bankPoint>>, railsUsed |-> <<rail>>,
         totalDistance |-> totalDist,
         difficulty |-> scoreToDifficulty(score),
         difficultyScore |-> score,
         pathSegments |-> <<<<cue, aim>>, <<obj, bankPoint>>>>])))))))))))

calcSingleBank(cue, obj, pocketPos, rail) ==
    Const(reflectPoint(pocketPos, rail), LAMBDA mirror :
    IF mirror = NULL THEN NULL
    ELSE
    Const(lineRailIntersection(obj, mirror, rail), LAMBDA bankPoint :
    IF bankPoint = NULL THEN NULL
    ELSE IF ~onRail(bankPoint, rail) THEN NULL
    ELSE
    Const(bankPoint[1] - obj[1], LAMBDA dx :
    Const(bankPoint[2] - obj[2], LAMBDA dy :
    Const(hypot(dx, dy), LAMBDA dist1 :
    IF dist1 < EPS_DIST THEN NULL
    ELSE
    Const(<<MulDiv(dx, DirScale, dist1), MulDiv(dy, DirScale, dist1)>>,
          LAMBDA direction :
    Const(ghostBallPoint(obj, direction), LAMBDA aim :
    IF ~onTable(aim) THEN NULL
    ELSE
    Const(hypot(pocketPos[1] - bankPoint[1], pocketPos[2] - bankPoint[2]),
          LAMBDA dist2 :
    Const(hypot(aim[1] - cue[1], aim[2] - cue[2]), LAMBDA cueDist :
    Const(cueDist + dist1 + dist2, LAMBDA totalDist :
    Const(rateDifficulty(cueDist, dist1 + dist2, 1), LAMBDA score :
        [cuePos |-> cue, objectPos |-> obj, targetPocket |-> pocketPos,
         aimPoint |-> aim, bankPoints |-> <<bankPoint>>, railsUsed |-> <<rail>>,
         totalDistance |-> totalDist,
         difficulty |-> scoreToDifficulty(score),
         difficultyScore |-> score,
         pathSegments |-> <<<<cue, aim>>, <<obj, bankPoint>>,
                            <<bankPoint, pocketPos>>>>])))))))))))

(* variant: the pocket is mirrored in the first rail and then in the second *)
calcDoubleBank_MirrorsSwapped(cue, obj, pocketPos, rail1, rail2) ==
    Const(reflectPoint(pocketPos, rail1), LAMBDA mirror1 :
    IF mirror1 = NULL THEN NULL
    ELSE
    Const(reflectPoint(mirror1, rail2), LAMBDA mirror2 :
    IF mirror2 = NULL THEN NULL
    ELSE
    Const(lineRailIntersection(obj, mirror2, rail1), LAMBDA bank1 :
    IF bank1 = NULL THEN NULL
    ELSE IF ~onRail(bank1, rail1) THEN NULL
    ELSE
    Const(lineRailIntersection(bank1, mirror1, rail2), LAMBDA bank2 :
    IF bank2 = NULL THEN NULL
    ELSE IF ~onRail(bank2, rail2) THEN NULL
    ELSE
    Const(bank1[1] - obj[1], LAMBDA dx :
    Const(bank1[2] - obj[2], LAMBDA dy :
    Const(hypot(dx, dy), LAMBDA distOb :
    IF distOb < EPS_DIST THEN NULL
    ELSE
    Const(<<MulDiv(dx, DirScale, distOb), MulDiv(dy, DirScale, distOb)>>,
          LAMBDA direction :
    Const(ghostBallPoint(obj, direction), LAMBDA aim :
    IF ~onTable(aim) THEN NULL
    ELSE
    Const(hypot(bank2[1] - bank1[1], bank2[2] - bank1[2]), LAMBDA distB1B2 :
    Const(hypot(pocketPos[1] - bank2[1], pocketPos[2] - bank2[2]),
          LAMBDA distB2P :
    Const(hypot(aim[1] - cue[1], aim[2] - cue[2]), LAMBDA cueDist :
    Const(cueDist + distOb + distB1B2 + distB2P, LAMBDA totalDist :
    Const(rateDifficulty(cueDist, distOb + distB1B2 + distB2P, 2), LAMBDA score :
        [cuePos |-> cue, objectPos |-> obj, targetPocket |-> pocketPos,
         aimPoint |-> aim, bankPoints |-> <<bank1, bank2>>,
         railsUsed |-> <<rail1, rail2>>,
         totalDistance |-> totalDist,
         difficulty |-> scoreToDifficulty(score),
         difficultyScore |-> score,
         pathSegments |-> <<<<cue, aim>>, <<obj, bank1>>, <<bank1, bank2>>,
                            <<bank2, pocketPos>>>>]))))))))))))))

(* variant: the aim direction is taken from the object ball to the second cushion point *)
calcDoubleBank_AimAtSecondCushion(cue, obj, pocketPos, rail1, rail2) ==
    Const(reflectPoint(pocketPos, rail2), LAMBDA mirror1 :
    IF mirror1 = NULL THEN NULL
    ELSE
    Const(reflectPoint(mirror1, rail1), LAMBDA mirror2 :
    IF mirror2 = NULL THEN NULL
    ELSE
    Const(lineRailIntersection(obj, mirror2, rail1), LAMBDA bank1 :
    IF bank1 = NULL THEN NULL
    ELSE IF ~onRail(bank1, rail1) THEN NULL
    ELSE
    Const(lineRailIntersection(bank1, mirror1, rail2), LAMBDA bank2 :
    IF bank2 = NULL THEN NULL
    ELSE IF ~onRail(bank2, rail2) THEN NULL
    ELSE
    Const(bank1[1] - obj[1], LAMBDA dx :
    Const(bank1[2] - obj[2], LAMBDA dy :
    Const(hypot(dx, dy), LAMBDA distOb :
    IF distOb < EPS_DIST THEN NULL
    ELSE
    Const(<<bank2[1] - obj[1], bank2[2] - obj[2]>>,
          LAMBDA direction :
    Const(ghostBallPoint(obj, direction), LAMBDA aim :
    IF ~onTable(aim) THEN NULL
    ELSE
    Const(hypot(bank2[1] - bank1[1], bank2[2] - bank1[2]), LAMBDA distB1B2 :
    Const(hypot(pocketPos[1] - bank2[1], pocketPos[2] - bank2[2]),
          LAMBDA distB2P :
    Const(hypot(aim[1] - cue[1], aim[2] - cue[2]), LAMBDA cueDist :
    Const(cueDist + distOb + distB1B2 + distB2P, LAMBDA totalDist :
    Const(rateDifficulty(cueDist, distOb + distB1B2 + distB2P, 2), LAMBDA score :
        [cuePos |-> cue, objectPos |-> obj, targetPocket |-> pocketPos,
         aimPoint |-> aim, bankPoints |-> <<bank1, bank2>>,
         railsUsed |-> <<rail1, rail2>>,
         totalDistance |-> totalDist,
         difficulty |-> scoreToDifficulty(score),
         difficultyScore |-> score,
         pathSegments |-> <<<<cue, aim>>, <<obj, bank1>>, <<bank1, bank2>>,
                            <<bank2, pocketPos>>>>]))))))))))))))

calcDoubleBank(cue, obj, pocketPos, rail1, rail2) ==
    Const(reflectPoint(pocketPos, rail2), LAMBDA mirror1 :
    IF mirror1 = NULL THEN NULL
    ELSE
    Const(reflectPoint(mirror1, rail1), LAMBDA mirror2 :
    IF mirror2 = NULL THEN NULL
    ELSE
    Const(lineRailIntersection(obj, mirror2, rail1), LAMBDA bank1 :
    IF bank1 = NULL THEN NULL
    ELSE IF ~onRail(bank1, rail1) THEN NULL
    ELSE
    Const(lineRailIntersection(bank1, mirror1, rail2), LAMBDA bank2 :
    IF bank2 = NULL THEN NULL
    ELSE IF ~onRail(bank2, rail2) THEN NULL
    ELSE
    Const(bank1[1] - obj[1], LAMBDA dx :
    Const(bank1[2] - obj[2], LAMBDA dy :
    Const(hypot(dx, dy), LAMBDA distOb :
    IF distOb < EPS_DIST THEN NULL
    ELSE
    Const(<<MulDiv(dx, DirScale, distOb), MulDiv(dy, DirScale, distOb)>>,
          LAMBDA direction :
    Const(ghostBallPoint(obj, direction), LAMBDA aim :
    IF ~onTable(aim) THEN NULL
    ELSE
    Const(hypot(bank2[1] - bank1[1], bank2[2] - bank1[2]), LAMBDA distB1B2 :
    Const(hypot(pocketPos[1] - bank2[1], pocketPos[2] - bank2[2]),
          LAMBDA distB2P :
    Const(hypot(aim[1] - cue[1], aim[2] - cue[2]), LAMBDA cueDist :
    Const(cueDist + distOb + distB1B2 + distB2P, LAMBDA totalDist :
    Const(rateDifficulty(cueDist, distOb + distB1B2 + distB2P, 2), LAMBDA score :
        [cuePos |-> cue, objectPos |-> obj, targetPocket |-> pocketPos,
         aimPoint |-> aim, bankPoints |-> <<bank1, bank2>>,
         railsUsed |-> <<rail1, rail2>>,
         totalDistance |-> totalDist,
         difficulty |-> scoreToDifficulty(score),
         difficultyScore |-> score,
         pathSegments |-> <<<<cue, aim>>, <<obj, bank1>>, <<bank1, bank2>>,
                            <<bank2, pocketPos>>>>]))))))))))))))

-----------------------------------------------------------------------------
(* physics engine: findAllShots *)

JSNull == "null"            \* the selector value null (no pocket named)
UNDEFINED == "undefined"    \* the value of a missing property

(* variant: the rail1 === rail2 test is missing *)
RailPairs_SameAllowed ==
    LET n == Len(ALL_RAILS)
    IN  [k \in 1..(n * n) |->
            <<ALL_RAILS[((k - 1) \div n) + 1], ALL_RAILS[((k - 1) % n) + 1]>>]

(* The shot shapes tried for one pocket, in the order of the loop body:
   the direct shot; if maxBanks >= 1, each rail of ALL_RAILS; if
   maxBanks >= 2, each (rail1, rail2) row by row, rail1 === rail2 skipped. *)
RailPairs ==
    LET n == Len(ALL_RAILS)
        all == [k \in 1..(n * n) |->
                   <<ALL_RAILS[((k - 1) \div n) + 1], ALL_RAILS[((k - 1) % n) + 1]>>]
        Distinct(pr) == pr[1] # pr[2]
    IN  SelectSeq(all, Distinct)

(* variant: a name selects nothing more than null does; all six pockets
   are evaluated whatever the selector *)
SelectedPockets_AllAlways(target) ==
    [i \in 1..Len(PocketNames) |-> pockets[PocketNames[i]]]

(* variant: the maxBanks thresholds are one too low *)
Shapes_OffByOne(maxB) ==
    <<<<>>>>
    \o (IF maxB >= 0 THEN [i \in 1..Len(ALL_RAILS) |-> <<ALL_RAILS[i]>>] ELSE <<>>)
    \o (IF maxB >= 1 THEN RailPairs ELSE <<>>)

(* variant: the direct shot is evaluated again after the bank shots *)
Shapes_DirectTwice(maxB) ==
    <<<<>>>>
    \o (IF maxB >= 1 THEN [i \in 1..Len(ALL_RAILS) |-> <<ALL_RAILS[i]>>] ELSE <<>>)
    \o (IF maxB >= 2 THEN RailPairs ELSE <<>>)
    \o <<<<>>>>

(* variant: the direct shot is tried only when no cushions are allowed *)
Shapes_DirectOnlyAlone(maxB) ==
    (IF maxB = 0 THEN <<<<>>>> ELSE <<>>)
    \o (IF maxB >= 1 THEN [i \in 1..Len(ALL_RAILS) |-> <<ALL_RAILS[i]>>] ELSE <<>>)
    \o (IF maxB >= 2 THEN RailPairs ELSE <<>>)

Shapes(maxB) ==
    <<<<>>>>
    \o (IF maxB >= 1 THEN [i \in 1..Len(ALL_RAILS) |-> <<ALL_RAILS[i]>>] ELSE <<>>)
    \o (IF maxB >= 2 THEN RailPairs ELSE <<>>)

calcShape(cue, obj, pocketPos, rails) ==
    CASE Len(rails) = 0 -> calcDirect(cue, obj, pocketPos)
      [] Len(rails) = 1 -> calcSingleBank(cue, obj, pocketPos, rails[1])
      [] Len(rails) = 2 -> calcDoubleBank(cue, obj, pocketPos, rails[1], rails[2])

(* Object.entries(pockets): the positions in insertion order.  A truthy
   selector selects the one property of that name, undefined if missing;
   null and the empty string are falsy and select this.pockets. *)
SelectedPockets(target) ==
    IF target # JSNull /\ target # ""
    THEN <<IF target \in DOMAIN pockets THEN pockets[target] ELSE UNDEFINED>>
    ELSE [i \in 1..Len(PocketNames) |-> pockets[PocketNames[i]]]

(* variant: the loop over shapes and pockets ends at the first shot that
   fails a check (a return where the source skips) *)
CollectShots_StopAtFailure(cue, obj, entries, maxB) ==
    LET shapes == Shapes(maxB)
        m == Len(shapes)
        tried == [k \in 1..(Len(entries) * m) |->
                     calcShape(cue, obj, entries[((k - 1) \div m) + 1],
                               shapes[((k - 1) % m) + 1])]
        failed == {k \in 1..Len(tried) : tried[k] = NULL}
        upTo == IF failed = {} THEN Len(tried)
                ELSE (CHOOSE k \in failed : \A j \in failed : k <= j) - 1
    IN  SubSeq(tried, 1, upTo)

(* the list after the loop over the selected pockets: for each pocket in
   turn, for each shape in turn, the shot if there is one
   (if (shot) shots.push(shot)) *)
CollectShots(cue, obj, entries, maxB) ==
    LET shapes == Shapes(maxB)
        m == Len(shapes)
        tried == [k \in 1..(Len(entries) * m) |->
                     calcShape(cue, obj, entries[((k - 1) \div m) + 1],
                               shapes[((k - 1) % m) + 1])]
        IsShot(shot) == shot # NULL
    IN  SelectSeq(tried, IsShot)

(* variant: the list is returned as collected *)
SortByScore_NoSort(list) == list

(* shots.sort((a, b) => a.difficultyScore - b.difficultyScore): Array.sort
   is stable, so an element's place is the number of elements that have a
   lower score, or the same score and an earlier index, plus one *)
SortByScore(list) ==
    LET n == Len(list)
        key == <<>> \o [i \in 1..n |-> list[i].difficultyScore]
        place == <<>> \o [i \in 1..n |->
                    Cardinality({j \in 1..n : \/ key[j] < key[i]
                                              \/ key[j] = key[i] /\ j < i}) + 1]
    IN  [k \in 1..n |-> list[CHOOSE i \in 1..n : place[i] = k]]

(* variant: the list of the previous call is still in the array the
   shots are pushed to *)
findAllShots_ListKept(cue, obj, target, maxB) ==
    LET entries == SelectedPockets(target)
        kept == IF earlier = <<>> THEN <<>> ELSE earlier[Len(earlier)].shots
    IN  IF \E i \in 1..Len(entries) : entries[i] = UNDEFINED
        THEN [outcome |-> "TypeError", shots |-> <<>>]
        ELSE [outcome |-> "returned",
              shots |-> SortByScore(kept \o CollectShots(cue, obj, entries, maxB))]

(* The call's result: the list returned, or the TypeError that reading
   pocketPos[0] of undefined raises in _calcDirect. *)
findAllShots(cue, obj, target, maxB) ==
    LET entries == SelectedPockets(target)
    IN  IF \E i \in 1..Len(entries) : entries[i] = UNDEFINED
        THEN [outcome |-> "TypeError", shots |-> <<>>]
        ELSE [outcome |-> "returned",
              shots |-> SortByScore(CollectShots(cue, obj, entries, maxB))]

-----------------------------------------------------------------------------
(* The requests callers make *)

GridN == 2      \* object balls are tried on a (GridN+1) x (GridN+1) grid

Mm(x, y) == <<x * Scale, y * Scale>>

(* the corners, rail midpoints and centre of the table (GridN = 2 puts a
   ball on every pocket and on every rail) *)
GridPoints ==
    {<<(i * TABLE_WIDTH) \div GridN, (j * TABLE_LENGTH) \div GridN>> :
        i \in 0..GridN, j \in 0..GridN}

ObjectPositions ==
    GridPoints \cup
    {Mm(500, 500),      \* an ordinary position
     Mm(1110, 5),       \* next to the bottom_right pocket
     Mm(0, 500),        \* on the left rail
     Mm(-100, 300),     \* off the table
     Mm(-20, 300),      \* outside the left rail line, within a ball radius
     Mm(300, 1000)}     \* where a cue ball also is

CuePositions ==
    {Mm(300, 1000),
     Mm(-200, 2500),    \* off the table
     Mm(-5000, 10000)}  \* far off the table

Selectors ==
    {JSNull, "", "unknown"} \cup {PocketNames[i] : i \in 1..Len(PocketNames)}

MaxBanksValues == -1..3

ValidSelector(target) ==
    target = JSNull \/ \E i \in 1..Len(PocketNames) : target = PocketNames[i]

ValidMaxBanks(maxB) == maxB \in {0, 1, 2}

-----------------------------------------------------------------------------
(* State machine *)

(* STATE of app.js (the word is reserved here) *)
APP_STATE ==
    [LOADING         |-> "loading",
     SCANNING        |-> "scanning",
     READY           |-> "ready",
     CUE_SELECTED    |-> "cue_selected",
     TARGET_SELECTED |-> "target_selected",
     SHOWING_SHOT    |-> "showing_shot"]

NoSelection == 0 - 1        \* selectedCue, selectedTarget: null (no index)

(* the fields as the constructor of App leaves them *)
AppConstructed ==
    /\ state = APP_STATE.LOADING
    /\ balls = <<>>
    /\ selectedCue = NoSelection
    /\ selectedTarget = NoSelection
    /\ selectedPocket = JSNull
    /\ scanTimer = FALSE
    /\ demoMode = FALSE

(* new BankShotCalculator(), nothing called yet *)
Init ==
    /\ width = TABLE_WIDTH
    /\ length = TABLE_LENGTH
    /\ pockets = POCKETS
    /\ diag = hypot(TABLE_WIDTH, TABLE_LENGTH)
    /\ cuePos = NULL
    /\ objectPos = NULL
    /\ targetPocket = JSNull
    /\ maxBanks = 2
    /\ shots = <<>>
    /\ outcome = "idle"
    /\ earlier = <<>>
    /\ AppConstructed

(* variant: the narrowed pocket map is stored (this.pockets = pockets) *)
Call_SelectionStored(cue, obj, target, maxB) ==
    /\ \E res \in {findAllShots(cue, obj, target, maxB)} :
           /\ shots' = res.shots
           /\ outcome' = res.outcome
    /\ cuePos' = cue
    /\ objectPos' = obj
    /\ targetPocket' = target
    /\ maxBanks' = maxB
    /\ pockets' = IF target \in DOMAIN pockets
                  THEN [n \in {target} |-> pockets[n]]
                  ELSE pockets
    /\ UNCHANGED <<width, length, diag, earlier>>

(* a caller invokes calculator.findAllShots(cue, obj, target, maxB) *)
Call(cue, obj, target, maxB) ==
    /\ \E res \in {findAllShots(cue, obj, target, maxB)} :
           /\ shots' = res.shots
           /\ outcome' = res.outcome
    /\ cuePos' = cue
    /\ objectPos' = obj
    /\ targetPocket' = target
    /\ maxBanks' = maxB
    /\ UNCHANGED <<width, length, pockets, diag, earlier>>

Solve ==
    /\ outcome = "idle"
    /\ \E cue \in CuePositions, obj \in ObjectPositions,
          target \in Selectors, maxB \in MaxBanksValues :
           Call(cue, obj, target, maxB)
    /\ UNCHANGED appVars

(* the caller is done with the result (or with the error): the arguments
   and the returned list go out of scope *)
Release ==
    /\ outcome # "idle"
    /\ cuePos' = NULL
    /\ objectPos' = NULL
    /\ targetPocket' = JSNull
    /\ maxBanks' = 2
    /\ shots' = <<>>
    /\ outcome' = "idle"
    /\ UNCHANGED <<width, length, pockets, diag, earlier, appVars>>

Next == Solve \/ Release

Spec == Init /\ [][Next]_vars

-----------------------------------------------------------------------------
(* Repeated calls on one calculator: the caller keeps what earlier calls
   returned and calls again. *)

MaxEarlier == 2     \* calls remembered before the last one

RepeatCues == {Mm(300, 1000)}

RepeatObjects == {Mm(500, 500), Mm(0, 0)}

RepeatSelectors == {JSNull, "bottom_right"}

RepeatMaxBanks == {0, 1}

SolveAgain ==
    /\ outcome = "idle"
    /\ \E cue \in RepeatCues, obj \in RepeatObjects,
          target \in RepeatSelectors, maxB \in RepeatMaxBanks :
           Call(cue, obj, target, maxB)
    /\ UNCHANGED appVars

(* the caller stores the call and its result, with the table it was made on *)
Remember ==
    /\ outcome # "idle"
    /\ Len(earlier) < MaxEarlier
    /\ earlier' = Append(earlier,
                         [cuePos |-> cuePos, objectPos |-> objectPos,
                          targetPocket |-> targetPocket, maxBanks |-> maxBanks,
                          table |-> <<width, length, pockets, diag>>,
                          outcome |-> outcome, shots |-> shots])
    /\ cuePos' = NULL
    /\ objectPos' = NULL
    /\ targetPocket' = JSNull
    /\ maxBanks' = 2
    /\ shots' = <<>>
    /\ outcome' = "idle"
    /\ UNCHANGED <<width, length, pockets, diag, appVars>>

NextRepeat == SolveAgain \/ Remember

SpecRepeat == Init /\ [][NextRepeat]_vars

-----------------------------------------------------------------------------
(* A caller that assigns to a coordinate of an array it finds in a returned
   candidate.  The candidate literals hold the arrays themselves: cuePos and
   objectPos are the caller's arguments, targetPocket is the entry of
   this.pockets (the POCKETS object of table-config.js), and the same arrays
   are the endpoints of pathSegments; aim and the cushion points are made
   new for each candidate.  An assignment through one holder is seen by
   every holder of the same array. *)

WriteCues == {Mm(300, 1000)}

WriteObjects == {Mm(500, 500)}

WriteSelectors == {JSNull, "bottom_right"}

WriteMaxBanks == {0, 1}

WrittenValue == 999 * Scale

Handles == {"cuePos", "objectPos", "targetPocket", "aimPoint"}

SolveForWriter ==
    /\ outcome = "idle"
    /\ \E cue \in WriteCues, obj \in WriteObjects,
          target \in WriteSelectors, maxB \in WriteMaxBanks :
           Call(cue, obj, target, maxB)
    /\ UNCHANGED appVars

(* the candidate as seen after the array it holds in the field handle, and
   as the matching pathSegments endpoint, has become new *)
Rewired(shot, handle, new) ==
    CASE handle = "cuePos" ->
           [shot EXCEPT !.cuePos = new, !.pathSegments[1][1] = new]
      [] handle = "objectPos" ->
           [shot EXCEPT !.objectPos = new, !.pathSegments[2][1] = new]
      [] handle = "targetPocket" ->
           [shot EXCEPT !.targetPocket = new,
                        !.pathSegments[Len(shot.pathSegments)][2] = new]
      [] handle = "aimPoint" ->
           [shot EXCEPT !.aimPoint = new, !.pathSegments[1][2] = new]

(* shots[i][handle][c] = v.  A pocket array is written only while the
   pockets are as table-config.js made them, which keeps the six pocket
   arrays apart by their values. *)
WriteThrough(i, handle, c, v) ==
    /\ outcome = "returned"
    /\ i \in 1..Len(shots)
    /\ handle = "targetPocket" => pockets = POCKETS
    /\ shots[i][handle][c] # v
    /\ \E old \in {shots[i][handle]} :
       \E new \in {[old EXCEPT ![c] = v]} :
           /\ shots' = [j \in 1..Len(shots) |->
                           IF \/ handle \in {"cuePos", "objectPos"}
                              \/ handle = "targetPocket" /\ shots[j].targetPocket = old
                              \/ handle = "aimPoint" /\ j = i
                           THEN Rewired(shots[j], handle, new)
                           ELSE shots[j]]
           /\ cuePos' = IF handle = "cuePos" THEN new ELSE cuePos
           /\ objectPos' = IF handle = "objectPos" THEN new ELSE objectPos
           /\ pockets' = IF handle = "targetPocket"
                         THEN [n \in DOMAIN pockets |->
                                  IF pockets[n] = old THEN new ELSE pockets[n]]
                         ELSE pockets
    /\ outcome' = "written"
    /\ UNCHANGED <<width, length, diag, targetPocket, maxBanks, earlier, appVars>>

Write ==
    \E i \in 1..Len(shots), handle \in Handles, c \in {1, 2} :
        WriteThrough(i, handle, c, WrittenValue)

NextWrite == SolveForWriter \/ Write \/ Release

SpecWrite == Init /\ [][NextWrite]_vars

-----------------------------------------------------------------------------
(* Calculators constructed for a table of another size:
   new BankShotCalculator(tableWidth, tableLength).  The constructor sets
   this.width, this.length and this.diag from its arguments and
   this.pockets to POCKETS whatever the arguments; _lineRailIntersection
   and _onTable read RAIL_LEFT .. RAIL_TOP whatever the fields. *)

TableSizes ==
    {<<TABLE_WIDTH, TABLE_LENGTH>>,     \* the defaults
     Mm(1000, 2000),                    \* a smaller table
     Mm(1270, 2540)}                    \* a larger table

TableCues == {Mm(300, 1000)}

TableSelectors == {JSNull, "top_left"}

TableMaxBanks == {0, 1, 2}

InitTable ==
    \E size \in TableSizes :
        /\ width = size[1]
        /\ length = size[2]
        /\ pockets = POCKETS
        /\ diag = hypot(size[1], size[2])
        /\ cuePos = NULL
        /\ objectPos = NULL
        /\ targetPocket = JSNull
        /\ maxBanks = 2
        /\ shots = <<>>
        /\ outcome = "idle"
        /\ earlier = <<>>
        /\ AppConstructed

SolveOnTable ==
    /\ outcome = "idle"
    /\ \E cue \in TableCues, obj \in ObjectPositions,
          target \in TableSelectors, maxB \in TableMaxBanks :
           Call(cue, obj, target, maxB)
    /\ UNCHANGED appVars

NextTable == SolveOnTable \/ Release

SpecTable == InitTable /\ [][NextTable]_vars

-----------------------------------------------------------------------------
(* The App: its selection state machine around the calculator.  A tap is
   given by the table position renderer.toTable maps it to and by the size
   of a canvas pixel on the table, which the window's size decides. *)

Max(a, b) == IF a >= b THEN a ELSE b

(* createSyntheticBalls(): the cue ball on the head spot and a rack of
   fifteen at the foot spot, as <<x, y>>; the rack is listed as
   <<2 * col, row>> *)
createSyntheticBalls ==
    LET rack == << <<0, 0>>, <<-1, 1>>, <<1, 1>>, <<-2, 2>>, <<0, 2>>, <<2, 2>>,
                   <<-3, 3>>, <<-1, 3>>, <<1, 3>>, <<3, 3>>,
                   <<-4, 4>>, <<-2, 4>>, <<0, 4>>, <<2, 4>>, <<4, 4>> >>
        footX == TABLE_WIDTH \div 2
        footY == (TABLE_LENGTH * 3) \div 4
    IN  << <<TABLE_WIDTH \div 2, TABLE_LENGTH \div 4>> >>
        \o [k \in 1..Len(rack) |->
               <<footX + (rack[k][1] * BALL_DIAMETER) \div 2,
                 footY + MulDiv(rack[k][2] * BALL_DIAMETER, 866, 1000)>>]

(* what the detector may find on a frame: nothing, one ball, three balls
   of which two are found at the same place *)
DetectedBallLists ==
    {<<>>,
     <<Mm(300, 1000)>>,
     <<Mm(300, 1000), Mm(500, 500), Mm(500, 500)>>}

(* where the user taps: on balls, between balls, near pockets, and where
   nothing is near *)
TapPoints ==
    {<<TABLE_WIDTH \div 2, TABLE_LENGTH \div 4>>,
     <<TABLE_WIDTH \div 2, (TABLE_LENGTH * 3) \div 4>>,
     Mm(530, 1720), Mm(300, 1000), Mm(500, 500),
     Mm(100, 100), Mm(1118, 2235), Mm(559, 1400)}

(* the size of a canvas pixel on the table, in units: half a millimetre on
   a large screen, four millimetres on a small one *)
PixelSizes == {Scale \div 2, 4 * Scale}

(* variant: the cue ball is not skipped when the target is chosen *)
closestBall_CueAllowed(ballList, tap, type, cue) ==
    LET eligible == 0..(Len(ballList) - 1)
        d(i) == hypot(ballList[i + 1][1] - tap[1], ballList[i + 1][2] - tap[2])
    IN  IF eligible = {} THEN <<0 - 1, Far>>
        ELSE LET best == CHOOSE i \in eligible :
                             \A j \in eligible : d(i) < d(j) \/ (d(i) = d(j) /\ i <= j)
             IN  <<best, d(best)>>

(* _onBallTap, the search: <<closest, minDist>>, the first of the nearest
   balls, the selected cue ball left out when the target is chosen;
   <<-1, Infinity>> when there is none *)
closestBall(ballList, tap, type, cue) ==
    LET eligible == {i \in 0..(Len(ballList) - 1) : ~(type = "target" /\ i = cue)}
        d(i) == hypot(ballList[i + 1][1] - tap[1], ballList[i + 1][2] - tap[2])
    IN  IF eligible = {} THEN <<0 - 1, Far>>
        ELSE LET best == CHOOSE i \in eligible :
                             \A j \in eligible : d(i) < d(j) \/ (d(i) = d(j) /\ i <= j)
             IN  <<best, d(best)>>

(* _onPocketTap, the search: <<bestPocket, bestDist>>, the first of the
   nearest pockets in the order of POCKETS *)
closestPocket(tap) ==
    LET d(k) == hypot(POCKETS[PocketNames[k]][1] - tap[1],
                      POCKETS[PocketNames[k]][2] - tap[2])
        best == CHOOSE k \in 1..Len(PocketNames) :
                    \A j \in 1..Len(PocketNames) : d(k) < d(j) \/ (d(k) = d(j) /\ k <= j)
    IN  <<PocketNames[best], d(best)>>

(* selectedCue = selectedTarget = selectedPocket = null; shots = [] *)
clearSelection ==
    /\ selectedCue' = NoSelection
    /\ selectedTarget' = NoSelection
    /\ selectedPocket' = JSNull
    /\ shots' = <<>>

(* the calculator and the record of its last call, which the App's other
   methods leave alone *)
calculatorVars ==
    <<width, length, pockets, diag, cuePos, objectPos, targetPocket, maxBanks,
      outcome, earlier>>

onBallTap(tap, type) ==
    \E found \in {closestBall(balls, tap, type, selectedCue)} :
        IF found[1] < 0 \/ found[2] > BALL_DIAMETER * 3
        THEN UNCHANGED vars
        ELSE IF type = "cue"
        THEN /\ selectedCue' = found[1]
             /\ state' = APP_STATE.CUE_SELECTED
             /\ UNCHANGED <<calculatorVars, shots, balls, selectedTarget,
                            selectedPocket, scanTimer, demoMode>>
        ELSE /\ selectedTarget' = found[1]
             /\ state' = APP_STATE.TARGET_SELECTED
             /\ UNCHANGED <<calculatorVars, shots, balls, selectedCue,
                            selectedPocket, scanTimer, demoMode>>

(* _calculateShots with this.selectedPocket = pocket *)
calculateShots(pocket) ==
    IF selectedCue = NoSelection \/ selectedTarget = NoSelection
          \/ pocket \in {JSNull, ""}
    THEN UNCHANGED <<calculatorVars, shots>>
    ELSE Call(balls[selectedCue + 1], balls[selectedTarget + 1], pocket, 2)

(* _onPocketTap; were findAllShots to throw, _setState would not be reached *)
onPocketTap(tap, pxSize) ==
    \E found \in {closestPocket(tap)} :
        IF found[2] > Max(40 * pxSize, BALL_DIAMETER * 2)
        THEN UNCHANGED vars
        ELSE /\ selectedPocket' = found[1]
             /\ calculateShots(found[1])
             /\ state' = IF outcome' = "TypeError" THEN state ELSE APP_STATE.SHOWING_SHOT
             /\ UNCHANGED <<balls, selectedCue, selectedTarget, scanTimer, demoMode>>

handleTap(tap, pxSize) ==
    CASE state = APP_STATE.READY -> onBallTap(tap, "cue")
      [] state = APP_STATE.CUE_SELECTED -> onBallTap(tap, "target")
      [] state = APP_STATE.TARGET_SELECTED -> onPocketTap(tap, pxSize)
      [] state = APP_STATE.SHOWING_SHOT -> onPocketTap(tap, pxSize)
      [] OTHER -> UNCHANGED vars

(* a click or touchend on the overlay *)
Tap == \E tap \in TapPoints, pxSize \in PixelSizes : handleTap(tap, pxSize)

(* _detectBalls(imageData) with a frame: detected is what the detector
   returns, failed that it throws instead *)
detectBalls(detected, failed) ==
    /\ balls' = IF demoMode \/ failed \/ Len(detected) = 0
                THEN createSyntheticBalls
                ELSE detected
    /\ clearSelection
    /\ state' = APP_STATE.READY

enterDemoMode ==
    /\ demoMode' = TRUE
    /\ scanTimer' = FALSE
    /\ balls' = createSyntheticBalls
    /\ clearSelection
    /\ state' = APP_STATE.READY
    /\ UNCHANGED calculatorVars

(* _init after its awaits: without a camera the demo mode, with one the
   scanning; no tap and no button acts while the state is LOADING *)
InitDone ==
    /\ state = APP_STATE.LOADING
    /\ \E camera \in BOOLEAN :
           IF camera
           THEN /\ state' = APP_STATE.SCANNING
                /\ scanTimer' = TRUE
                /\ UNCHANGED <<calculatorVars, shots, balls, selectedCue,
                               selectedTarget, selectedPocket, demoMode>>
           ELSE enterDemoMode

(* the interval timer fires _scanForTable: no frame, no OpenCV or no table
   found, and nothing happens; a table found, and the timer is stopped and
   the balls are detected on the frame *)
ScanForTable ==
    /\ scanTimer
    /\ \E found \in BOOLEAN, detected \in DetectedBallLists, failed \in BOOLEAN :
           IF ~found
           THEN UNCHANGED vars
           ELSE /\ scanTimer' = FALSE
                /\ detectBalls(detected, failed)
                /\ UNCHANGED <<calculatorVars, demoMode>>

(* the Reset button, shown while the state is SHOWING_SHOT *)
ResetSelection ==
    /\ state = APP_STATE.SHOWING_SHOT
    /\ clearSelection
    /\ state' = APP_STATE.READY
    /\ UNCHANGED <<calculatorVars, balls, scanTimer, demoMode>>

(* the Re-detect button, shown from READY on unless in demo mode *)
Redetect ==
    /\ state \in {APP_STATE.READY, APP_STATE.CUE_SELECTED, APP_STATE.TARGET_SELECTED,
                  APP_STATE.SHOWING_SHOT}
    /\ ~demoMode
    /\ balls' = <<>>
    /\ clearSelection
    /\ state' = APP_STATE.SCANNING
    /\ scanTimer' = TRUE
    /\ UNCHANGED <<calculatorVars, demoMode>>

(* the Demo Mode button, shown while the state is SCANNING *)
EnterDemoMode ==
    /\ state = APP_STATE.SCANNING
    /\ enterDemoMode

NextApp ==
    InitDone \/ Tap \/ ScanForTable \/ ResetSelection \/ Redetect \/ EnterDemoMode

SpecApp == Init /\ [][NextApp]_vars

-----------------------------------------------------------------------------
(* Properties of the returned list *)

Returned == outcome = "returned"

ValidRequest == ValidSelector(targetPocket) /\ ValidMaxBanks(maxBanks)

NumBanks(shot) == Len(shot.bankPoints)

(* the list as collected, before the sort *)
Collected ==
    CollectShots(cuePos, objectPos, SelectedPockets(targetPocket), maxBanks)

(* C1: the returned list is non-decreasing in difficultyScore: each
   candidate's score is at most the score of the one after it. *)
C1_SortedOutput ==
    Returned =>
        \A i \in 1..(Len(shots) - 1) :
            shots[i].difficultyScore <= shots[i + 1].difficultyScore

(* a returned list of several candidates that the sort had to reorder *)
C1_Witness ==
    /\ Returned
    /\ Len(shots) >= 3
    /\ shots # Collected
    /\ shots[1].difficultyScore < shots[Len(shots)].difficultyScore

(* C2: with maxBanks 0, 1 or 2, no returned candidate has more cushion
   points than maxBanks. *)
C2_CushionCountBound ==
    (Returned /\ ValidMaxBanks(maxBanks)) =>
        \A i \in 1..Len(shots) : NumBanks(shots[i]) <= maxBanks

(* maxBanks = 1 returned a single-cushion candidate and held back a
   double-cushion candidate that maxBanks = 2 returns *)
C2_Witness ==
    /\ Returned
    /\ maxBanks = 1
    /\ \E i \in 1..Len(shots) : NumBanks(shots[i]) = 1
    /\ \E c \in {findAllShots(cuePos, objectPos, targetPocket, 2).shots} :
           \E i \in 1..Len(c) : NumBanks(c[i]) = 2

(* distance(aimPoint, objectPos), in units *)
AimDistance(shot) ==
    hypot(shot.aimPoint[1] - shot.objectPos[1], shot.aimPoint[2] - shot.objectPos[2])

(* C3: for every returned candidate of every class, the distance between
   aimPoint and objectPos is 2 * BALL_RADIUS (57.15 mm), to within the
   rounding of the coordinates (one unit of 1/40 mm, where the source's
   doubles make it 1e-6 mm). *)
C3_GhostBallDistance ==
    Returned =>
        \A i \in 1..Len(shots) :
            Abs(AimDistance(shots[i]) - 2 * BALL_RADIUS) <= 1

(* a returned list with a direct, a single- and a double-cushion candidate *)
C3_Witness ==
    /\ Returned
    /\ \A n \in {0, 1, 2} : \E i \in 1..Len(shots) : NumBanks(shots[i]) = n

(* C4: no returned double-cushion candidate uses the same rail twice:
   railsUsed[0] differs from railsUsed[1]. *)
C4_RailPairDistinct ==
    Returned =>
        \A i \in 1..Len(shots) :
            NumBanks(shots[i]) = 2 => shots[i].railsUsed[1] # shots[i].railsUsed[2]

(* double-cushion candidates were returned by a call in which a same-rail
   pair, had it been evaluated, would have passed every check *)
C4_Witness ==
    /\ Returned
    /\ \E i \in 1..Len(shots) : NumBanks(shots[i]) = 2
    /\ \E entries \in {SelectedPockets(targetPocket)} :
           \E k \in 1..Len(entries), r \in 1..Len(ALL_RAILS) :
               calcDoubleBank(cuePos, objectPos, entries[k],
                              ALL_RAILS[r], ALL_RAILS[r]) # NULL

(* the point the object ball is sent to first *)
NextTarget(shot) ==
    IF NumBanks(shot) = 0 THEN shot.targetPocket ELSE shot.bankPoints[1]

(* C5: a degenerate candidate is never returned: no returned candidate has
   its object ball on its next target (the pocket of a direct shot, the
   first cushion point of a cushion shot) or its aimPoint on the object
   ball; when the object ball is on a selected pocket, no direct candidate
   for that pocket is returned. *)
C5_DegenerateRejected ==
    Returned =>
        \A i \in 1..Len(shots) :
            /\ shots[i].objectPos # NextTarget(shots[i])
            /\ shots[i].aimPoint # shots[i].objectPos
            /\ (NumBanks(shots[i]) = 0 => shots[i].targetPocket # objectPos)

(* the object ball lies on a pocket that was selected, and so on the left
   rail; the call returned candidates for other pockets and rails *)
C5_Witness ==
    /\ Returned
    /\ objectPos = POCKETS["side_left"]
    /\ targetPocket = JSNull
    /\ maxBanks = 2
    /\ Len(shots) > 0

(* Scenario B: object ball at (1110, 5), pocket bottom_right selected *)
ScenarioB ==
    /\ Returned
    /\ objectPos = Mm(1110, 5)
    /\ targetPocket = "bottom_right"

IsDirectTo(shot, pocketPos) ==
    NumBanks(shot) = 0 /\ shot.targetPocket = pocketPos

(* C6 as claimed: in Scenario B the aim point of the direct shot is off the
   table and no direct candidate for bottom_right is returned. *)
C6_ScenarioB_NoDirect ==
    ScenarioB =>
        \A i \in 1..Len(shots) : ~IsDirectTo(shots[i], POCKETS["bottom_right"])

(* C6, amended: in Scenario B the ghost-ball aim point of the direct shot,
   about (1061.5, 35.3) mm, lies inside [-r, width+r] x [-r, length+r], and
   the direct candidate for bottom_right is returned, for any cue position. *)
C6_ScenarioB_DirectReturned ==
    ScenarioB =>
        \E i \in 1..Len(shots) :
            /\ IsDirectTo(shots[i], POCKETS["bottom_right"])
            /\ onTable(shots[i].aimPoint)
            /\ Abs(shots[i].aimPoint[1] - (10615 * Scale) \div 10) <= Scale \div 10
            /\ Abs(shots[i].aimPoint[2] - (353 * Scale) \div 10) <= Scale \div 10

(* Scenario B was requested with the cue ball off the table *)
C6_Witness ==
    /\ ScenarioB
    /\ cuePos = Mm(-200, 2500)
    /\ Len(shots) > 0

(* C7: a call returns what an earlier call with the same cue position,
   object position, selector and maxBanks on the same table returned: the
   same candidates with the same field values in the same order. *)
C7_Deterministic ==
    \A k \in 1..Len(earlier) :
        (/\ outcome # "idle"
         /\ earlier[k].cuePos = cuePos
         /\ earlier[k].objectPos = objectPos
         /\ earlier[k].targetPocket = targetPocket
         /\ earlier[k].maxBanks = maxBanks
         /\ earlier[k].table = <<width, length, pockets, diag>>)
        => (earlier[k].outcome = outcome /\ earlier[k].shots = shots)

(* the same request was made a second time, with a different request that
   returned candidates in between, and returned candidates *)
C7_Witness ==
    /\ Returned
    /\ Len(shots) > 1
    /\ Len(earlier) = 2
    /\ earlier[1].cuePos = cuePos
    /\ earlier[1].objectPos = objectPos
    /\ earlier[1].targetPocket = targetPocket
    /\ earlier[1].maxBanks = maxBanks
    /\ earlier[2].targetPocket # targetPocket
    /\ Len(earlier[2].shots) > 0

(* C8 as claimed: a request whose selector is neither null nor a pocket
   name, or whose maxBanks is not 0, 1 or 2, does not return a result list. *)
C8_InvalidRequestRejected ==
    (outcome # "idle" /\ ~ValidRequest) => outcome # "returned"

(* every shape of every selected pocket that passes its checks is in the list *)
AllFeasiblePresent ==
    \E entries \in {SelectedPockets(targetPocket)}, shapes \in {Shapes(maxBanks)} :
        \A k \in 1..Len(entries), j \in 1..Len(shapes) :
            \E shot \in {calcShape(cuePos, objectPos, entries[k], shapes[j])} :
                shot # NULL => \E i \in 1..Len(shots) : shots[i] = shot

(* some shape of some selected pocket fails a check *)
SomeInfeasible ==
    \E entries \in {SelectedPockets(targetPocket)}, shapes \in {Shapes(maxBanks)} :
        \E k \in 1..Len(entries), j \in 1..Len(shapes) :
            calcShape(cuePos, objectPos, entries[k], shapes[j]) = NULL

(* C9: a call with a valid selector and maxBanks in {0,1,2} returns a list,
   whatever the positions (off the table, on a rail, on a pocket, the two
   balls on one point); a shape that fails a check is left out and every
   other shape is in the list. *)
C9_InfeasibleNeverAborts ==
    (outcome # "idle" /\ ValidRequest) => (Returned /\ AllFeasiblePresent)

(* the object ball is outside the rail line, shapes fail and others are
   returned *)
C9_Witness ==
    /\ Returned
    /\ ValidRequest
    /\ objectPos = Mm(-20, 300)
    /\ SomeInfeasible
    /\ Len(shots) > 0

(* how often shot occurs in list *)
Count(list, shot) == Cardinality({i \in 1..Len(list) : list[i] = shot})

(* the lists of the six single-pocket calls, in pocket order *)
SinglePocketLists ==
    [n \in 1..Len(PocketNames) |->
        findAllShots(cuePos, objectPos, PocketNames[n], maxBanks).shots]

RECURSIVE SumCount(_, _, _)
SumCount(lists, shot, n) ==
    IF n = 0 THEN 0 ELSE Count(lists[n], shot) + SumCount(lists, shot, n - 1)

(* C10: with a pocket named, every returned candidate has that pocket's
   position as targetPocket; with the selector null, the returned list has
   exactly the candidates of the six single-pocket calls, each as often as
   they have it, and none else. *)
C10_PocketSelection ==
    /\ (Returned /\ targetPocket \in DOMAIN pockets) =>
           \A i \in 1..Len(shots) : shots[i].targetPocket = pockets[targetPocket]
    /\ (Returned /\ targetPocket = JSNull) =>
           \E lists \in {SinglePocketLists} :
               /\ \A i \in 1..Len(shots) :
                      Count(shots, shots[i]) = SumCount(lists, shots[i], Len(lists))
               /\ \A n \in 1..Len(lists) : \A i \in 1..Len(lists[n]) :
                      Count(shots, lists[n][i]) =
                          SumCount(lists, lists[n][i], Len(lists))

(* the selector is null and candidates for at least three pockets came back *)
C10_Witness ==
    /\ Returned
    /\ targetPocket = JSNull
    /\ maxBanks = 2
    /\ Cardinality({shots[i].targetPocket : i \in 1..Len(shots)}) >= 3

(* the places in the list of the candidates for the pocket at pos *)
ForPocket(list, pos) == {i \in 1..Len(list) : list[i].targetPocket = pos}

(* the shapes of one pocket: 1 direct, 4 single-cushion, 12 double-cushion *)
MaxPerPocket(maxB) ==
    CASE maxB = 0 -> 1
      [] maxB = 1 -> 1 + 4
      [] maxB = 2 -> 1 + 4 + 12

(* C11: for a valid request, the shapes evaluated for a pocket are 1, 5 or
   17 different rail sequences (maxBanks 0, 1, 2: the direct one, one per
   rail, one per ordered pair of distinct rails); no two returned candidates
   have the same targetPocket and the same railsUsed; a pocket has at most
   1, 5 or 17 candidates and the list at most 102. *)
C11_EnumerationShape ==
    (Returned /\ ValidRequest) =>
        /\ \E shapes \in {Shapes(maxBanks)} :
               /\ Len(shapes) = MaxPerPocket(maxBanks)
               /\ \A a, b \in 1..Len(shapes) : a # b => shapes[a] # shapes[b]
               /\ \A i \in 1..Len(shots) :
                      \E a \in 1..Len(shapes) : shots[i].railsUsed = shapes[a]
        /\ \A i, j \in 1..Len(shots) :
               (i # j /\ shots[i].targetPocket = shots[j].targetPocket)
                   => shots[i].railsUsed # shots[j].railsUsed
        /\ \A n \in DOMAIN pockets :
               Cardinality(ForPocket(shots, pockets[n])) <= MaxPerPocket(maxBanks)
        /\ Len(shots) <= 6 * 17

(* all six pockets with maxBanks = 2: some pocket has a direct, several
   single-cushion and several double-cushion candidates *)
C11_Witness ==
    /\ Returned
    /\ targetPocket = JSNull
    /\ maxBanks = 2
    /\ \E n \in DOMAIN pockets :
           /\ Cardinality(ForPocket(shots, pockets[n])) >= 6
           /\ \E i \in ForPocket(shots, pockets[n]) : NumBanks(shots[i]) = 0
           /\ Cardinality({i \in ForPocket(shots, pockets[n]) :
                               NumBanks(shots[i]) = 1}) >= 2
           /\ Cardinality({i \in ForPocket(shots, pockets[n]) :
                               NumBanks(shots[i]) = 2}) >= 2

(* the length of a path segment <<from, to>>, in units *)
SegmentLength(seg) == hypot(seg[2][1] - seg[1][1], seg[2][2] - seg[1][2])

(* the summed length of the segments from place k on *)
RECURSIVE LengthFrom(_, _)
LengthFrom(segs, k) ==
    IF k > Len(segs) THEN 0 ELSE SegmentLength(segs[k]) + LengthFrom(segs, k + 1)

(* min(1, 0.5 * (cueToAim + objectTravel) / (2 * diag) + 0.25 * n), in
   1/ScoreScale, from the candidate's own points *)
ScoreOfPath(shot) ==
    LET cueToAim == hypot(shot.aimPoint[1] - shot.cuePos[1],
                          shot.aimPoint[2] - shot.cuePos[2])
        objectTravel == LengthFrom(shot.pathSegments, 2)
        raw == MulDiv(cueToAim + objectTravel, ScoreScale, 4 * diag)
                   + Len(shot.bankPoints) * (ScoreScale \div 4)
    IN  Min(ScoreScale, raw)

(* C12: the difficultyScore of every returned candidate is
   min(1, 0.5 * (cue->aimPoint + object->cushions->pocket) / (2 * diag)
          + 0.25 * number of cushion points),
   the lengths taken from the candidate's own points, to within the
   rounding of the score (2 / ScoreScale). *)
C12_ScoreFormula ==
    Returned =>
        \A i \in 1..Len(shots) :
            Abs(shots[i].difficultyScore - ScoreOfPath(shots[i])) <= 2

(* a list with a direct, a single-cushion and a double-cushion candidate
   below the cap, and a candidate at the cap *)
C12_Witness ==
    /\ Returned
    /\ \A n \in {0, 1, 2} :
           \E i \in 1..Len(shots) :
               NumBanks(shots[i]) = n /\ shots[i].difficultyScore < ScoreScale
    /\ \E i \in 1..Len(shots) : shots[i].difficultyScore = ScoreScale

(* Scenario A: cue (300, 1000), object (500, 500), pocket bottom_right *)
ScenarioA ==
    /\ Returned
    /\ cuePos = Mm(300, 1000)
    /\ objectPos = Mm(500, 500)
    /\ targetPocket = "bottom_right"

(* C13: the difficulty of every returned candidate is the bucket of its own
   difficultyScore: easy iff score < 0.25, medium iff 0.25 <= score < 0.5,
   hard iff 0.5 <= score < 0.75, very_hard iff score >= 0.75; in Scenario A
   the direct candidate has a score within 0.001 of 0.129 and is easy. *)
C13_CategoryBuckets ==
    /\ Returned =>
           \A i \in 1..Len(shots) :
               \E score \in {shots[i].difficultyScore}, cat \in {shots[i].difficulty} :
                   /\ cat \in {"easy", "medium", "hard", "very_hard"}
                   /\ cat = "easy" <=> 4 * score < ScoreScale
                   /\ cat = "medium" <=> (ScoreScale <= 4 * score /\ 2 * score < ScoreScale)
                   /\ cat = "hard" <=> (ScoreScale <= 2 * score /\ 4 * score < 3 * ScoreScale)
                   /\ cat = "very_hard" <=> 4 * score >= 3 * ScoreScale
    /\ ScenarioA =>
           \E i \in 1..Len(shots) :
               /\ IsDirectTo(shots[i], POCKETS["bottom_right"])
               /\ Abs(1000 * shots[i].difficultyScore - 129 * ScoreScale) <= ScoreScale
               /\ shots[i].difficulty = "easy"

(* Scenario A with bank shots allowed: the list has the easy direct
   candidate and candidates of the three other categories *)
C13_Witness ==
    /\ ScenarioA
    /\ maxBanks = 2
    /\ \A cat \in {"easy", "medium", "hard", "very_hard"} :
           \E i \in 1..Len(shots) : shots[i].difficulty = cat

(* C14: the difficultyScore of every returned candidate is between 0 and 1,
   for cue and object positions on, off and far off the table. *)
C14_ScoreRange ==
    Returned =>
        \A i \in 1..Len(shots) :
            0 <= shots[i].difficultyScore /\ shots[i].difficultyScore <= ScoreScale

(* the cue ball is far off the table and a direct candidate, whose path is
   longer than four diagonals, is returned with score 1 *)
C14_Witness ==
    /\ Returned
    /\ cuePos = Mm(-5000, 10000)
    /\ \E i \in 1..Len(shots) :
           /\ NumBanks(shots[i]) = 0
           /\ shots[i].totalDistance > 4 * diag
           /\ shots[i].difficultyScore = ScoreScale

(* the distance, along the axis the rail's line is on, from the point to the
   line of the rail on a table of the given width and length *)
OffRailLine(point, rail, w, l) ==
    CASE rail = "left"   -> Abs(point[1])
      [] rail = "right"  -> Abs(point[1] - w)
      [] rail = "bottom" -> Abs(point[2])
      [] rail = "top"    -> Abs(point[2] - l)

(* C15: a returned candidate with n cushion points has n railsUsed entries,
   cushion point k being on the line of rail k (to within a unit), and
   n + 2 pathSegments: the first is cue -> aimPoint, the others start at
   objectPos, each starts where the one before ended, segment k + 1 ends at
   cushion point k, and the last ends at targetPocket. *)
C15_PathStructure ==
    Returned =>
        \A i \in 1..Len(shots) :
            \E n \in {Len(shots[i].bankPoints)}, segs \in {shots[i].pathSegments} :
                /\ n \in {0, 1, 2}
                /\ Len(shots[i].railsUsed) = n
                /\ \A k \in 1..n :
                       /\ shots[i].railsUsed[k] \in
                              {ALL_RAILS[r] : r \in 1..Len(ALL_RAILS)}
                       /\ OffRailLine(shots[i].bankPoints[k], shots[i].railsUsed[k],
                                      TABLE_WIDTH, TABLE_LENGTH) <= 1
                /\ Len(segs) = n + 2
                /\ segs[1] = <<shots[i].cuePos, shots[i].aimPoint>>
                /\ segs[2][1] = shots[i].objectPos
                /\ \A k \in 1..n :
                       /\ segs[k + 1][2] = shots[i].bankPoints[k]
                       /\ segs[k + 2][1] = shots[i].bankPoints[k]
                /\ segs[n + 2][2] = shots[i].targetPocket

(* a single-cushion candidate off the left rail, with 3 segments, is
   returned beside a direct and a double-cushion candidate *)
C15_Witness ==
    /\ Returned
    /\ \E i \in 1..Len(shots) :
           /\ shots[i].railsUsed = <<"left">>
           /\ Len(shots[i].pathSegments) = 3
    /\ \E i \in 1..Len(shots) : Len(shots[i].pathSegments) = 2
    /\ \E i \in 1..Len(shots) : Len(shots[i].pathSegments) = 4

(* C16 as claimed: when the caller changes a coordinate held in a field of a
   returned candidate, the solver's table and pockets, the caller's cue and
   object positions and every other returned candidate stay as they were. *)
C16_FieldsAreValues ==
    [][(outcome = "returned" /\ outcome' = "written") =>
          /\ <<width, length, pockets, diag>>' = <<width, length, pockets, diag>>
          /\ cuePos' = cuePos
          /\ objectPos' = objectPos
          /\ \E i \in 1..Len(shots) :
                 \A j \in 1..Len(shots) : j # i => shots'[j] = shots[j]]_vars

(* the solver's fields as the constructor set them *)
ConstructedTable ==
    <<TABLE_WIDTH, TABLE_LENGTH, POCKETS, hypot(TABLE_WIDTH, TABLE_LENGTH)>>

(* C17: calls have no side effect on the solver or on their inputs: after
   any number of calls width, length, diag and the six pocket positions are
   as constructed, as they were after every earlier call (the solver has no
   other field, so it keeps nothing from call to call), and the cue and
   object positions of the last and of every earlier call are the ones the
   caller passed. *)
C17_NoSideEffects ==
    /\ <<width, length, pockets, diag>> = ConstructedTable
    /\ \A k \in 1..Len(earlier) :
           /\ earlier[k].table = ConstructedTable
           /\ earlier[k].cuePos \in RepeatCues
           /\ earlier[k].objectPos \in RepeatObjects
    /\ outcome # "idle" => (cuePos \in RepeatCues /\ objectPos \in RepeatObjects)

(* a third call, for all pockets, has returned after two calls that named
   a pocket and returned candidates *)
C17_Witness ==
    /\ Returned
    /\ targetPocket = JSNull
    /\ Len(shots) > 0
    /\ Len(earlier) = 2
    /\ \A k \in 1..2 :
           earlier[k].targetPocket = "bottom_right" /\ Len(earlier[k].shots) > 0

(* C18: the aimPoint of every returned candidate, of every class, has
   -r <= x <= width + r and -r <= y <= length + r, r the ball radius. *)
C18_AimOnTable ==
    Returned =>
        \A i \in 1..Len(shots) :
            /\ -BALL_RADIUS <= shots[i].aimPoint[1]
            /\ shots[i].aimPoint[1] <= TABLE_WIDTH + BALL_RADIUS
            /\ -BALL_RADIUS <= shots[i].aimPoint[2]
            /\ shots[i].aimPoint[2] <= TABLE_LENGTH + BALL_RADIUS

(* candidates of all three classes are returned, one of them with its aim
   point outside the rails but within a ball radius of them, while another
   shape of the same call is left out *)
C18_Witness ==
    /\ Returned
    /\ ValidRequest
    /\ \A n \in {0, 1, 2} : \E i \in 1..Len(shots) : NumBanks(shots[i]) = n
    /\ \E i \in 1..Len(shots) :
           \/ shots[i].aimPoint[1] < 0
           \/ shots[i].aimPoint[1] > TABLE_WIDTH
           \/ shots[i].aimPoint[2] < 0
           \/ shots[i].aimPoint[2] > TABLE_LENGTH
    /\ SomeInfeasible

(* the coordinate of a cushion point along its rail, and the rail's length *)
AlongRail(point, rail) == IF rail \in {"left", "right"} THEN point[2] ELSE point[1]

SpanOfRail(rail) == IF rail \in {"left", "right"} THEN length ELSE width

(* C19: every cushion point of every returned candidate is within the span
   of its rail extended by 50 mm at each end: -50 <= y <= length + 50 on
   left and right, -50 <= x <= width + 50 on bottom and top, width and
   length being those the solver was constructed with. *)
C19_CushionWithinSpan ==
    Returned =>
        \A i \in 1..Len(shots) : \A k \in 1..Len(shots[i].bankPoints) :
            /\ -(50 * Scale) <= AlongRail(shots[i].bankPoints[k], shots[i].railsUsed[k])
            /\ AlongRail(shots[i].bankPoints[k], shots[i].railsUsed[k])
                   <= SpanOfRail(shots[i].railsUsed[k]) + 50 * Scale

(* a double-cushion candidate is returned with a cushion point past the end
   of its rail, within the 50 mm *)
C19_Witness ==
    /\ Returned
    /\ \E i \in 1..Len(shots) :
           /\ NumBanks(shots[i]) = 2
           /\ \E k \in 1..2 :
                  \/ AlongRail(shots[i].bankPoints[k], shots[i].railsUsed[k]) < 0
                  \/ AlongRail(shots[i].bankPoints[k], shots[i].railsUsed[k])
                         > SpanOfRail(shots[i].railsUsed[k])

(* C20 as claimed: for a solver constructed with any width and length, all
   six pockets are on the boundary of the width x length rectangle and every
   cushion point of a returned candidate is on the line of its rail of that
   table: x = 0, x = width, y = 0 or y = length (to within a unit). *)
C20_RailsOfTheTable ==
    /\ \A n \in DOMAIN pockets :
           /\ 0 <= pockets[n][1] /\ pockets[n][1] <= width
           /\ 0 <= pockets[n][2] /\ pockets[n][2] <= length
           /\ \/ pockets[n][1] \in {0, width}
              \/ pockets[n][2] \in {0, length}
    /\ Returned =>
           \A i \in 1..Len(shots) : \A k \in 1..Len(shots[i].bankPoints) :
               OffRailLine(shots[i].bankPoints[k], shots[i].railsUsed[k],
                           width, length) <= 1

(* the coordinate of a point across its rail, and the line of the rail on
   the standard table *)
AcrossRail(point, rail) == IF rail \in {"left", "right"} THEN point[1] ELSE point[2]

LineOfRail(rail) ==
    CASE rail = "left"   -> 0
      [] rail = "right"  -> TABLE_WIDTH
      [] rail = "bottom" -> 0
      [] rail = "top"    -> TABLE_LENGTH

(* Specular reflection of the path from -> at -> to in the rail, to within
   tol units: from and to are on one side of the rail's line (or on it),
   and at divides the way along the rail from from to to in the ratio of
   their distances a and b from the line, so that the two legs have equal
   and opposite slopes across the rail and run the same way along it. *)
Reflects(from, at, to, rail, tol) ==
    LET c == LineOfRail(rail)
        a == Abs(c - AcrossRail(from, rail))
        b == Abs(c - AcrossRail(to, rail))
    IN  /\ Abs(AcrossRail(at, rail) - c) <= 1
        /\ Sgn(c - AcrossRail(from, rail)) * Sgn(c - AcrossRail(to, rail)) >= 0
        /\ a + b > 0 =>
               Abs(AlongRail(at, rail)
                   - (AlongRail(from, rail)
                      + MulDiv(AlongRail(to, rail) - AlongRail(from, rail), a, a + b)))
                   <= tol

(* C21: in every returned single-cushion candidate the path object ->
   cushion point -> pocket is reflected in the rail used: the cushion point
   is on the rail's line where the line from the object ball to the mirror
   image of the pocket crosses it, the two legs having the same direction
   along the rail and opposite directions across it (to within a unit). *)
C21_SingleBankSpecular ==
    Returned =>
        \A i \in 1..Len(shots) :
            NumBanks(shots[i]) = 1 =>
                Reflects(shots[i].objectPos, shots[i].bankPoints[1],
                         shots[i].targetPocket, shots[i].railsUsed[1], 1)

(* a single-cushion candidate is returned whose pocket is not on the rail
   used and whose two legs are both longer than a ball diameter *)
C21_Witness ==
    /\ Returned
    /\ \E i \in 1..Len(shots) :
           /\ NumBanks(shots[i]) = 1
           /\ AcrossRail(shots[i].targetPocket, shots[i].railsUsed[1])
                  # LineOfRail(shots[i].railsUsed[1])
           /\ SegmentLength(shots[i].pathSegments[2]) > BALL_DIAMETER
           /\ SegmentLength(shots[i].pathSegments[3]) > BALL_DIAMETER


(* C22: in every returned double-cushion candidate the first cushion point
   is on the first rail and the second on the second rail, in path order,
   and the path is reflected at both: object -> cushion 1 -> cushion 2 in
   the first rail, cushion 1 -> cushion 2 -> pocket in the second (to
   within two units, the cushion points being rounded to a unit each). *)
C22_DoubleBankSpecular ==
    Returned =>
        \A i \in 1..Len(shots) :
            NumBanks(shots[i]) = 2 =>
                /\ Reflects(shots[i].objectPos, shots[i].bankPoints[1],
                            shots[i].bankPoints[2], shots[i].railsUsed[1], 2)
                /\ Reflects(shots[i].bankPoints[1], shots[i].bankPoints[2],
                            shots[i].targetPocket, shots[i].railsUsed[2], 2)

(* a double-cushion candidate is returned with three legs longer than a
   ball diameter, off two rails that meet in a corner *)
C22_Witness ==
    /\ Returned
    /\ \E i \in 1..Len(shots) :
           /\ NumBanks(shots[i]) = 2
           /\ shots[i].railsUsed[1] \in {"left", "right"}
           /\ shots[i].railsUsed[2] \in {"bottom", "top"}
           /\ \A k \in 2..4 : SegmentLength(shots[i].pathSegments[k]) > BALL_DIAMETER


(* the mirror image of a point in the line of a rail of the standard table *)
MirrorInRail(point, rail) ==
    IF rail \in {"left", "right"}
    THEN <<2 * LineOfRail(rail) - point[1], point[2]>>
    ELSE <<point[1], 2 * LineOfRail(rail) - point[2]>>

(* the line from start towards end crosses the rail's line at a parameter
   t >= 0: it is not parallel to the rail and the rail's line is not behind
   start *)
CrossesAhead(start, end, rail) ==
    /\ AcrossRail(end, rail) # AcrossRail(start, rail)
    /\ Sgn(LineOfRail(rail) - AcrossRail(start, rail))
         * Sgn(AcrossRail(end, rail) - AcrossRail(start, rail)) >= 0

(* the rails, and the rail sequences the enumeration tries *)
RailSet == {ALL_RAILS[k] : k \in 1..Len(ALL_RAILS)}

RailSequences == {<<r>> : r \in RailSet} \cup {RailPairs[k] : k \in 1..Len(RailPairs)}

(* the line on which the first cushion point of a candidate to pocketPos
   off the given rails is looked for ends in this point *)
FirstLineEnd(pocketPos, rails) ==
    IF Len(rails) = 1 THEN MirrorInRail(pocketPos, rails[1])
    ELSE MirrorInRail(MirrorInRail(pocketPos, rails[2]), rails[1])

(* C23: every cushion point of a returned candidate is at a parameter
   t >= 0 of the line that defines it (object -> mirrored pocket for the
   first, cushion 1 -> pocket mirrored in rail 2 for the second of two), and
   no candidate is returned for a pocket and rails whose first line is
   parallel to the rail or meets the rail's line only behind the object. *)
C23_NoCrossingBehind ==
    Returned =>
        /\ \A i \in 1..Len(shots) :
              /\ NumBanks(shots[i]) >= 1 =>
                    CrossesAhead(shots[i].objectPos,
                                 FirstLineEnd(shots[i].targetPocket, shots[i].railsUsed),
                                 shots[i].railsUsed[1])
              /\ NumBanks(shots[i]) = 2 =>
                    CrossesAhead(shots[i].bankPoints[1],
                                 MirrorInRail(shots[i].targetPocket, shots[i].railsUsed[2]),
                                 shots[i].railsUsed[2])
        /\ \A name \in DOMAIN POCKETS :
           \A rails \in RailSequences :
              ~CrossesAhead(objectPos, FirstLineEnd(POCKETS[name], rails), rails[1])
                 => ~\E i \in 1..Len(shots) :
                        /\ shots[i].targetPocket = POCKETS[name]
                        /\ shots[i].railsUsed = rails

(* a list with a cushion candidate is returned for an object ball beyond a
   rail, for which the line to some mirrored pocket meets that rail's line
   only behind the ball *)
C23_Witness ==
    /\ Returned
    /\ \E i \in 1..Len(shots) : NumBanks(shots[i]) >= 1
    /\ \E name \in DOMAIN POCKETS : \E r \in RailSet :
           /\ (targetPocket = JSNull \/ targetPocket = name)
           /\ maxBanks >= 1
           /\ AcrossRail(FirstLineEnd(POCKETS[name], <<r>>), r) # AcrossRail(objectPos, r)
           /\ ~CrossesAhead(objectPos, FirstLineEnd(POCKETS[name], <<r>>), r)


(* the aim point of a candidate is behind the object ball on the line to
   target: the vectors aim -> object and object -> target point the same
   way (positive inner product) and are parallel, to within the rounding of
   the aim point to a unit *)
BehindObject(shot, target) ==
    LET ax == shot.objectPos[1] - shot.aimPoint[1]
        ay == shot.objectPos[2] - shot.aimPoint[2]
        tx == target[1] - shot.objectPos[1]
        ty == target[2] - shot.objectPos[2]
    IN  /\ ax * tx + ay * ty > 0
        /\ Abs(ax * ty - ay * tx) <= Abs(tx) + Abs(ty)

(* C24: in every returned candidate the aim point, the object ball and the
   candidate's next target (the pocket of a direct shot, the first cushion
   point otherwise) are on one line with the object ball strictly between
   the aim point and the next target. *)
C24_GhostBallSide ==
    Returned =>
        \A i \in 1..Len(shots) : BehindObject(shots[i], NextTarget(shots[i]))

(* a direct candidate is returned, and a double-cushion candidate whose
   aim point is behind the object ball as seen from the first cushion
   point but not as seen from the second or from the pocket *)
C24_Witness ==
    /\ Returned
    /\ \E i \in 1..Len(shots) : NumBanks(shots[i]) = 0
    /\ \E i \in 1..Len(shots) :
           /\ NumBanks(shots[i]) = 2
           /\ ~BehindObject(shots[i], shots[i].bankPoints[2])
           /\ ~BehindObject(shots[i], shots[i].targetPocket)


(* C25: the totalDistance of every returned candidate is the sum of the
   lengths of its pathSegments: the way of the cue ball from cuePos to the
   aim point and the way of the object ball through the cushion points to
   the pocket; the gap of a ball diameter between the aim point and the
   object ball is not part of it. *)
C25_TotalDistanceIsPathLength ==
    Returned =>
        \A i \in 1..Len(shots) :
            /\ shots[i].totalDistance = LengthFrom(shots[i].pathSegments, 1)
            /\ shots[i].pathSegments[1] = <<shots[i].cuePos, shots[i].aimPoint>>
            /\ shots[i].pathSegments[2][1] = shots[i].objectPos

(* a returned list with a direct, a single- and a double-cushion candidate
   whose cue ball is not at the aim point *)
C25_Witness ==
    /\ Returned
    /\ \A n \in {0, 1, 2} :
           \E i \in 1..Len(shots) :
               /\ NumBanks(shots[i]) = n
               /\ SegmentLength(shots[i].pathSegments[1]) > 0
               /\ shots[i].totalDistance > SegmentLength(shots[i].pathSegments[1])


(* C26: no returned cushion candidate has a leg of length zero: each
   cushion point differs from the target pocket, and the two cushion points
   of a double-cushion candidate differ from each other. *)
C26_NoZeroLengthLeg ==
    Returned =>
        \A i \in 1..Len(shots) :
            /\ \A k \in 1..NumBanks(shots[i]) :
                   shots[i].bankPoints[k] # shots[i].targetPocket
            /\ NumBanks(shots[i]) = 2 =>
                   shots[i].bankPoints[1] # shots[i].bankPoints[2]


(* C27: the difficultyScore of a returned candidate with n cushion points
   is at least 0.25 * n; hence no single-cushion candidate is rated "easy",
   every double-cushion candidate is rated "hard" or "very_hard", and only
   direct candidates can be rated "easy". *)
C27_CushionsRaiseCategory ==
    Returned =>
        \A i \in 1..Len(shots) :
            /\ 4 * shots[i].difficultyScore >= NumBanks(shots[i]) * ScoreScale
            /\ NumBanks(shots[i]) = 1 => shots[i].difficulty # "easy"
            /\ NumBanks(shots[i]) = 2 => shots[i].difficulty \in {"hard", "very_hard"}
            /\ shots[i].difficulty = "easy" => NumBanks(shots[i]) = 0

(* a returned list with a direct candidate rated "easy", a single-cushion
   candidate rated "medium" and a double-cushion candidate rated "hard" *)
C27_Witness ==
    /\ Returned
    /\ \E i \in 1..Len(shots) :
           NumBanks(shots[i]) = 0 /\ shots[i].difficulty = "easy"
    /\ \E i \in 1..Len(shots) :
           NumBanks(shots[i]) = 1 /\ shots[i].difficulty = "medium"
    /\ \E i \in 1..Len(shots) :
           NumBanks(shots[i]) = 2 /\ shots[i].difficulty = "hard"


(* the candidates of a list with at most k cushion points, as a set *)
UpTo(list, k) == {c \in {list[j] : j \in 1..Len(list)} : NumBanks(c) <= k}

(* C28: the list returned for maxBanks = k, k = 0 or 1, holds exactly the
   candidates with at most k cushion points of the list returned for the
   same cue ball, object ball and selector with maxBanks = 2, with the same
   fields, each once. *)
C28_MonotoneInMaxBanks ==
    (Returned /\ maxBanks \in {0, 1}) =>
        /\ UpTo(shots, 2)
             = UpTo(findAllShots(cuePos, objectPos, targetPocket, 2).shots, maxBanks)
        /\ Cardinality(UpTo(shots, 2)) = Len(shots)

(* a list is returned for maxBanks = 1 with direct and single-cushion
   candidates, where maxBanks = 2 gives double-cushion candidates more *)
C28_Witness ==
    /\ Returned
    /\ maxBanks = 1
    /\ \A n \in {0, 1} : \E i \in 1..Len(shots) : NumBanks(shots[i]) = n
    /\ UpTo(findAllShots(cuePos, objectPos, targetPocket, 2).shots, 2) # UpTo(shots, 2)


(* what a candidate says of the object ball's way and of the aim: pocket,
   rails, cushion points and aim point *)
Geometry(shot) ==
    <<shot.targetPocket, shot.railsUsed, shot.bankPoints, shot.aimPoint>>

GeometriesOf(list) == {Geometry(list[j]) : j \in 1..Len(list)}

(* C29: the candidates returned do not depend on the cue ball's position
   except in cuePos, the first path segment, totalDistance, the score and
   the order: a call with another cue position and otherwise the same
   arguments returns as many candidates, with the same pockets, rails,
   cushion points and aim points. *)
C29_CueIndependent ==
    Returned =>
        \A cue \in CuePositions :
            /\ GeometriesOf(findAllShots(cue, objectPos, targetPocket, maxBanks).shots)
                 = GeometriesOf(shots)
            /\ Len(findAllShots(cue, objectPos, targetPocket, maxBanks).shots)
                 = Len(shots)

(* a list with cushion candidates is returned that another cue position
   would have given in another order and with other scores *)
C29_Witness ==
    /\ Returned
    /\ \E i \in 1..Len(shots) : NumBanks(shots[i]) >= 1
    /\ \E cue \in CuePositions :
           /\ cue # cuePos
           /\ [j \in 1..Len(shots) |->
                  Geometry(findAllShots(cue, objectPos, targetPocket, maxBanks).shots[j])]
                # [j \in 1..Len(shots) |-> Geometry(shots[j])]
           /\ \E j \in 1..Len(shots) :
                  findAllShots(cue, objectPos, targetPocket, maxBanks).shots[j].difficultyScore
                    # shots[j].difficultyScore


(* a selected ball index is an index into balls *)
ValidIndex(i) == i \in 0..(Len(balls) - 1)

(* C30: in every state the App reaches by taps, toolbar buttons and timer
   callbacks the selection agrees with the state: READY has no cue ball, no
   target, no pocket and no shots; CUE_SELECTED has a cue ball and no
   target; TARGET_SELECTED and SHOWING_SHOT have a cue ball and a target
   that are valid indices into balls and differ; SHOWING_SHOT has a pocket,
   and shots is what the solver returns for that cue ball, target and
   pocket with maxBanks = 2. *)
C30_SelectionAgreesWithState ==
    /\ state = APP_STATE.READY =>
          /\ selectedCue = NoSelection
          /\ selectedTarget = NoSelection
          /\ selectedPocket = JSNull
          /\ shots = <<>>
    /\ state = APP_STATE.CUE_SELECTED =>
          /\ selectedCue # NoSelection
          /\ selectedTarget = NoSelection
    /\ state \in {APP_STATE.TARGET_SELECTED, APP_STATE.SHOWING_SHOT} =>
          /\ ValidIndex(selectedCue)
          /\ ValidIndex(selectedTarget)
          /\ selectedCue # selectedTarget
    /\ state = APP_STATE.SHOWING_SHOT =>
          /\ selectedPocket \in DOMAIN POCKETS
          /\ findAllShots(balls[selectedCue + 1], balls[selectedTarget + 1],
                          selectedPocket, 2)
               = [outcome |-> "returned", shots |-> shots]

(* shots are shown for detected balls, the cue ball not the first of them
   and the target found at the place of another ball, with candidates of
   all three classes *)
C30_Witness ==
    /\ state = APP_STATE.SHOWING_SHOT
    /\ ~demoMode
    /\ selectedCue > 0
    /\ \E i \in 0..(Len(balls) - 1) :
           i # selectedTarget /\ balls[i + 1] = balls[selectedTarget + 1]
    /\ \A n \in {0, 1, 2} : \E i \in 1..Len(shots) : NumBanks(shots[i]) = n

====
